---- MODULE Spec2Model ----
(***************************************************************************)
(* State model of the RecipeGenerator component (src/src/app/page.tsx):    *)
(* the ingredient editor, the chat transcript, and the requests to the     *)
(* generative-language endpoint that are in flight.                        *)
(*                                                                         *)
(* Text is a sequence of one-character strings, so that trim, join and     *)
(* template interpolation are computed, not assumed.  Each event handler   *)
(* runs to its first await in one step; the continuation after the await   *)
(* (try / catch / finally) is a second step that reads the values the      *)
(* handler's closure captured when it was invoked.                         *)
(***************************************************************************)
EXTENDS Integers, Sequences, FiniteSets, Bags, TLC

VARIABLES
    ingredients,   \* useState<Ingredient[]>      page.tsx:35
    chatHistory,   \* useState<ChatMessage[]>     page.tsx:36
    isLoading,     \* useState<boolean>           page.tsx:37
    inputText,     \* useState<string>            page.tsx:38
    pending,       \* bag of axios.post calls awaiting their result
    last,          \* the result that arrived, or the reset made, in the step just taken
    edits          \* how many editor operations have been performed

vars == <<ingredients, chatHistory, isLoading, inputText, pending, last, edits>>

state == <<ingredients, chatHistory, isLoading, inputText>>

----------------------------------------------------------------------------
(* Bounds of the model *)

\* most editor operations (add, remove, update) in one run
MaxEdits == 2
\* most messages in the transcript (sendMessage itself has no limit)
MaxHistory == 4
\* most requests in flight at once (the code itself has no limit)
MaxPending == 2
\* Date.now() returns one of MaxTick + 1 consecutive readings
MaxTick == 1

----------------------------------------------------------------------------
(* Text *)

SP == " "
NL == "\n"

IsSpace(c) == c \in {SP, NL}

RECURSIVE TrimStart(_)
TrimStart(s) ==
    IF s = <<>> THEN <<>>
    ELSE IF IsSpace(Head(s)) THEN TrimStart(Tail(s))
    ELSE s

RECURSIVE TrimEnd(_)
TrimEnd(s) ==
    IF s = <<>> THEN <<>>
    ELSE IF IsSpace(s[Len(s)]) THEN TrimEnd(SubSeq(s, 1, Len(s) - 1))
    ELSE s

\* String.prototype.trim
Trim(s) == TrimEnd(TrimStart(s))

\* Array.prototype.join: the elements of ss with sep between them
RECURSIVE Join(_, _)
Join(ss, sep) ==
    IF ss = <<>> THEN <<>>
    ELSE IF Len(ss) = 1 THEN ss[1]
    ELSE ss[1] \o sep \o Join(Tail(ss), sep)

----------------------------------------------------------------------------
(* Data *)

\* interface Ingredient
Ingredient(id, name, amount) == [id |-> id, name |-> name, amount |-> amount]

\* interface ChatMessage; an absent isIngredientList (undefined) is FALSE
ChatMessage(role, text, flag) ==
    [role |-> role, text |-> text, isIngredientList |-> flag]

initialIngredients ==
    << Ingredient("1", <<>>, <<>>),
       Ingredient("2", <<>>, <<>>),
       Ingredient("3", <<>>, <<>>) >>

\* The Japanese literals of the source are written as ASCII tokens, one
\* sequence element each.
\* the separator passed to join                               page.tsx:67
COMMA == "<,>"
\* the label that starts the ingredient-list message          page.tsx:104
ListLabel == <<"<ingredients:>">>
\* the fixed blocks of the prompt template around ${ingredientsList}
PromptHead == <<"<suggest a recipe using these ingredients:>", NL>>
BASIC_SEASONINGS == <<NL, "<seasonings that may be used>", NL>>
PromptTail ==
    <<NL, NL, "<notes>", NL, NL>> \o BASIC_SEASONINGS
        \o <<NL, NL, "<output format>">>

\* what Date.now() can return: a few milliseconds, in no fixed order (the
\* wall clock is not monotonic), none of which reads as an initial id
Clock == { 1000 + t : t \in 0..MaxTick }

\* values the user can type into a name field, an amount field, the chat input
NameInputs == { <<>>, <<SP>>, <<"a">> }
AmountInputs == { <<>>, <<"1">> }
TextInputs == { <<>>, <<SP>>, <<SP, "q">> }

\* a request passed to axios.post, with the locals its continuation reads
Request(op, contents, list, hist) ==
    [op |-> op, contents |-> contents, ingredientsList |-> list, newHistory |-> hist]

\* what the await delivers: a rejection (network failure, non-2xx status), or
\* a body whose candidates are each the list of text parts of their content
Response(status, candidates) == [status |-> status, candidates |-> candidates]
Responses ==
    { Response("rejected", <<>>),
      Response("ok", <<>>),
      Response("ok", << << <<"A">>, <<"B">> >>, << <<"C">> >> >>) }

\* the arrival of a result: op is the handler that issued the request, outcome
\* is "succeeded" (the try block ran to its end, reply is the text it read) or
\* "failed" (the catch block ran); a step of resetChat leaves an event of op
\* "resetChat" with no outcome, any other step leaves NoEvent
Event(op, outcome, reply) == [op |-> op, outcome |-> outcome, reply |-> reply]
NoEvent == Event("", "", <<>>)

----------------------------------------------------------------------------
(* Initial state: the first render *)

Init ==
    /\ ingredients = initialIngredients
    /\ chatHistory = <<>>
    /\ isLoading = FALSE
    /\ inputText = <<>>
    /\ pending = EmptyBag
    /\ last = NoEvent
    /\ edits = 0

----------------------------------------------------------------------------
(* Ingredient editor *)

RowIds == { ingredients[i].id : i \in 1..Len(ingredients) }

\* one more editor operation, within the bound of the model
Edited ==
    /\ edits < MaxEdits
    /\ edits' = edits + 1

\* addIngredient
addIngredient(now) ==
    /\ Edited
    /\ LET newId == ToString(now)
       IN  ingredients' = Append(ingredients, Ingredient(newId, <<>>, <<>>))
    /\ last' = NoEvent
    /\ UNCHANGED <<chatHistory, isLoading, inputText, pending>>

\* removeIngredient
removeIngredient(id) ==
    /\ Edited
    /\ ingredients' = SelectSeq(ingredients, LAMBDA ing : ing.id # id)
    /\ last' = NoEvent
    /\ UNCHANGED <<chatHistory, isLoading, inputText, pending>>

\* updateIngredient
updateIngredient(id, field, value) ==
    /\ Edited
    /\ ingredients' =
          [i \in 1..Len(ingredients) |->
              IF ingredients[i].id = id
              THEN [ingredients[i] EXCEPT ![field] = value]
              ELSE ingredients[i]]
    /\ last' = NoEvent
    /\ UNCHANGED <<chatHistory, isLoading, inputText, pending>>

\* onChange of the follow-up input
setInputText(value) ==
    /\ inputText' = value
    /\ last' = NoEvent
    /\ UNCHANGED <<ingredients, chatHistory, isLoading, pending, edits>>

\* a reset that leaves the flag as it is
resetChat_KeepsFlag ==
    /\ chatHistory' = <<>>
    /\ inputText' = <<>>
    /\ UNCHANGED isLoading
    /\ last' = Event("resetChat", "", <<>>)
    /\ UNCHANGED <<ingredients, pending, edits>>

\* resetChat; the requests that are outstanding stay outstanding
resetChat ==
    /\ chatHistory' = <<>>
    /\ inputText' = <<>>
    /\ isLoading' = FALSE
    /\ last' = Event("resetChat", "", <<>>)
    /\ UNCHANGED <<ingredients, pending, edits>>

----------------------------------------------------------------------------
(* Requests and their results *)

InFlight == BagCardinality(pending)

Issue(req) == pending (+) SetToBag({req})
Settle(req) == pending (-) SetToBag({req})

\* response.data.candidates[0].content.parts.map(part => part.text).join("\n");
\* a rejected post, or a body without a first candidate, throws
ParseReply(res) ==
    IF res.status # "ok" \/ Len(res.candidates) = 0
    THEN [threw |-> TRUE, text |-> <<>>]
    ELSE [threw |-> FALSE, text |-> Join(res.candidates[1], <<NL>>)]

----------------------------------------------------------------------------
(* generateRecipe *)

Named(ing) == Trim(ing.name) # <<>>

\* a list string with an entry for every row, named or not
BuildIngredientsList_AllRows(ings) ==
    LET entries == [i \in 1..Len(ings) |->
                       ings[i].name \o <<SP>> \o ings[i].amount \o <<"g">>]
    IN  Join(entries, <<COMMA>>)

\* ingredients.filter(...).map(...).join(...)
BuildIngredientsList(ings) ==
    LET named == SelectSeq(ings, Named)
        entries == [i \in 1..Len(named) |->
                       named[i].name \o <<SP>> \o named[i].amount \o <<"g">>]
    IN  Join(entries, <<COMMA>>)

BuildPrompt(list) == PromptHead \o list \o PromptTail

\* SubmitDisabled without the isLoading term
SubmitDisabled_IgnoresLoading == Len(SelectSeq(ingredients, Named)) = 0

\* the disabled attribute of the submit button
SubmitDisabled == isLoading \/ Len(SelectSeq(ingredients, Named)) = 0

\* generateRecipe up to its await
generateRecipe ==
    IF Len(ingredients) = 0
    THEN UNCHANGED vars
    ELSE LET ingredientsList == BuildIngredientsList(ingredients)
             prompt == BuildPrompt(ingredientsList)
             req == Request("generateRecipe",
                            << [role |-> "", parts |-> <<prompt>>] >>,
                            ingredientsList, <<>>)
         IN  /\ InFlight < MaxPending
             /\ isLoading' = TRUE
             /\ pending' = Issue(req)
             /\ last' = NoEvent
             /\ UNCHANGED <<ingredients, chatHistory, inputText, edits>>

\* a click on the submit button
ClickSubmit ==
    \/ /\ SubmitDisabled
       /\ UNCHANGED vars
    \/ /\ ~SubmitDisabled
       /\ generateRecipe

\* generateRecipeTry restating the list of the current rows
generateRecipeTry_CurrentList(req, recipe) ==
    /\ chatHistory' =
          << ChatMessage("user", ListLabel \o BuildIngredientsList(ingredients), TRUE),
             ChatMessage("assistant", recipe, FALSE) >>
    /\ UNCHANGED inputText

\* the try block of generateRecipe after the await
generateRecipeTry(req, recipe) ==
    /\ chatHistory' =
          << ChatMessage("user", ListLabel \o req.ingredientsList, TRUE),
             ChatMessage("assistant", recipe, FALSE) >>
    /\ UNCHANGED inputText

\* generateRecipeCatch showing the error in the transcript
generateRecipeCatch_AppendsError(req) ==
    /\ chatHistory' = Append(chatHistory, ChatMessage("assistant", <<"<error>">>, FALSE))
    /\ UNCHANGED inputText

\* the catch block of generateRecipe
generateRecipeCatch(req) ==
    UNCHANGED <<chatHistory, inputText>>

\* a continuation that leaves the flag as it is
Finally_Skipped == UNCHANGED isLoading

\* the finally block of generateRecipe and of sendMessage
Finally == isLoading' = FALSE

\* the result of a generateRecipe request arrives
generateRecipeSettled(req, res) ==
    /\ BagIn(req, pending)
    /\ req.op = "generateRecipe"
    /\ LET reply == ParseReply(res)
       IN  /\ IF reply.threw
              THEN generateRecipeCatch(req)
              ELSE generateRecipeTry(req, reply.text)
           /\ last' = Event(req.op, IF reply.threw THEN "failed" ELSE "succeeded", reply.text)
    /\ Finally
    /\ pending' = Settle(req)
    /\ UNCHANGED <<ingredients, edits>>

----------------------------------------------------------------------------
(* sendMessage *)

\* the disabled attribute of the send button
SendDisabled == isLoading

\* the contents of the transcript without the message being sent
HistoryContents_PriorOnly(hist) ==
    [i \in 1..(Len(hist) - 1) |-> [role |-> hist[i].role, parts |-> <<hist[i].text>>]]

\* contents of the follow-up request
HistoryContents(hist) ==
    [i \in 1..Len(hist) |-> [role |-> hist[i].role, parts |-> <<hist[i].text>>]]

\* [...chatHistory, { role: "user", text: inputText }]
NewHistory(hist, text) == Append(hist, ChatMessage("user", text, FALSE))

\* sendMessage up to its await
sendMessage ==
    IF Trim(inputText) = <<>>
    THEN UNCHANGED vars
    ELSE LET newHistory == NewHistory(chatHistory, inputText)
             req == Request("sendMessage", HistoryContents(newHistory),
                            <<>>, newHistory)
         IN  /\ InFlight < MaxPending
             /\ Len(newHistory) < MaxHistory
             /\ isLoading' = TRUE
             /\ pending' = Issue(req)
             /\ last' = NoEvent
             /\ UNCHANGED <<ingredients, chatHistory, inputText, edits>>

\* a click on the send button
ClickSend ==
    \/ /\ SendDisabled
       /\ UNCHANGED vars
    \/ /\ ~SendDisabled
       /\ sendMessage

\* onKeyDown of the follow-up input, Enter without Shift
PressEnter == sendMessage

\* sendMessageTry appending the reply to the current transcript
sendMessageTry_CurrentHistory(req, responseParts) ==
    /\ chatHistory' =
          Append(chatHistory, ChatMessage("assistant", responseParts, FALSE))
    /\ inputText' = <<>>

\* the try block of sendMessage after the await
sendMessageTry(req, responseParts) ==
    /\ chatHistory' =
          Append(req.newHistory, ChatMessage("assistant", responseParts, FALSE))
    /\ inputText' = <<>>

\* sendMessageCatch storing the user message that was sent
sendMessageCatch_KeepsUserMessage(req) ==
    /\ chatHistory' = req.newHistory
    /\ UNCHANGED inputText

\* the catch block of sendMessage
sendMessageCatch(req) ==
    UNCHANGED <<chatHistory, inputText>>

\* the result of a sendMessage request arrives
sendMessageSettled(req, res) ==
    /\ BagIn(req, pending)
    /\ req.op = "sendMessage"
    /\ LET reply == ParseReply(res)
       IN  /\ IF reply.threw
              THEN sendMessageCatch(req)
              ELSE sendMessageTry(req, reply.text)
           /\ last' = Event(req.op, IF reply.threw THEN "failed" ELSE "succeeded", reply.text)
    /\ Finally
    /\ pending' = Settle(req)
    /\ UNCHANGED <<ingredients, edits>>

----------------------------------------------------------------------------
(* The component *)

Edit ==
    \/ \E now \in Clock : addIngredient(now)
    \/ \E id \in RowIds : removeIngredient(id)
    \/ \E id \in RowIds, value \in NameInputs : updateIngredient(id, "name", value)
    \/ \E id \in RowIds, value \in AmountInputs : updateIngredient(id, "amount", value)

Chat ==
    \/ \E value \in TextInputs : setInputText(value)
    \/ ClickSubmit
    \/ ClickSend
    \/ PressEnter
    \/ resetChat

Arrive ==
    \/ \E req \in BagToSet(pending), res \in Responses : generateRecipeSettled(req, res)
    \/ \E req \in BagToSet(pending), res \in Responses : sendMessageSettled(req, res)

Next == Edit \/ Chat \/ Arrive

Spec == Init /\ [][Next]_vars


\* every issued request eventually succeeds or fails
FairSpec == Spec /\ WF_vars(Arrive)

\* The editor alone, taken up after one click on the add button: the budget of
\* editor operations then reaches an addition, a second addition and a removal
EditorInit ==
    /\ \E now \in Clock :
          ingredients = Append(initialIngredients, Ingredient(ToString(now), <<>>, <<>>))
    /\ chatHistory = <<>>
    /\ isLoading = FALSE
    /\ inputText = <<>>
    /\ pending = EmptyBag
    /\ last = NoEvent
    /\ edits = 0

EditorSpec == EditorInit /\ [][Edit]_vars

\* Submission alone, over the lists the editor makes of the initial rows by
\* removing rows and typing names and amounts
ListNames == NameInputs \cup { <<SP, "b">> }
ListAmounts == AmountInputs

SubmitForms ==
    UNION { LET rows == SelectSeq(initialIngredients, LAMBDA ing : ing.id \in keep)
            IN  { [i \in 1..Len(rows) |-> Ingredient(rows[i].id, f[i][1], f[i][2])] :
                    f \in [1..Len(rows) -> ListNames \X ListAmounts] } :
            keep \in SUBSET { initialIngredients[i].id : i \in 1..Len(initialIngredients) } }

SubmitInit ==
    /\ ingredients \in SubmitForms
    /\ chatHistory = <<>>
    /\ isLoading = FALSE
    /\ inputText = <<>>
    /\ pending = EmptyBag
    /\ last = NoEvent
    /\ edits = 0

SubmitNext ==
    \/ ClickSubmit
    \/ \E req \in BagToSet(pending), res \in Responses : generateRecipeSettled(req, res)

SubmitSpec == SubmitInit /\ [][SubmitNext]_vars

\* Follow-ups alone, taken up when a recipe has been delivered for some list
\* of rows and nothing is outstanding: no reset and no recipe submission occurs
FollowUpInit ==
    /\ ingredients \in { f \in SubmitForms : SelectSeq(f, Named) # <<>> }
    /\ \E res \in Responses :
          /\ ~ParseReply(res).threw
          /\ chatHistory =
                << ChatMessage("user", ListLabel \o BuildIngredientsList(ingredients), TRUE),
                   ChatMessage("assistant", ParseReply(res).text, FALSE) >>
    /\ isLoading = FALSE
    /\ inputText = <<>>
    /\ pending = EmptyBag
    /\ last = NoEvent
    /\ edits = 0

FollowUpNext ==
    \/ \E value \in TextInputs : setInputText(value)
    \/ ClickSend
    \/ PressEnter
    \/ \E req \in BagToSet(pending), res \in Responses : sendMessageSettled(req, res)

FollowUpSpec == FollowUpInit /\ [][FollowUpNext]_vars

----------------------------------------------------------------------------
(* Steps and states, as the properties below read them *)

\* the step issues the request req
Issues(req) == pending' = pending (+) SetToBag({req})

\* the step delivers the result of the request req of handler op
Succeeds(op, req) ==
    /\ last' = Event(op, "succeeded", last'.reply)
    /\ req.op = op
    /\ pending' = pending (-) SetToBag({req})

Fails(op, req) ==
    /\ last' = Event(op, "failed", <<>>)
    /\ req.op = op
    /\ pending' = pending (-) SetToBag({req})

\* the sequence a is the beginning of the sequence b
IsPrefix(a, b) == Len(a) <= Len(b) /\ SubSeq(b, 1, Len(a)) = a

\* the sequence a is b with some of its elements left out
RECURSIVE IsSubseq(_, _)
IsSubseq(a, b) ==
    IF a = <<>> THEN TRUE
    ELSE IF b = <<>> THEN FALSE
    ELSE IF Head(a) = Head(b) THEN IsSubseq(Tail(a), Tail(b))
    ELSE IsSubseq(a, Tail(b))

\* the ids of the rows, in the order of the rows
IdsOf(ings) == [i \in 1..Len(ings) |-> ings[i].id]

\* no two rows have the same id
DistinctIds(ings) ==
    \A i, j \in 1..Len(ings) : i # j => ings[i].id # ings[j].id

\* the text has no character other than white space
IsBlank(s) == \A i \in 1..Len(s) : s[i] \in {SP, NL}

\* the list string as the specification words it, row by row: a row with a
\* blank name gives nothing, any other row gives its name, a space, its amount
\* and "g", and a full-width comma stands between two entries
RECURSIVE ListOf(_)
ListOf(rows) ==
    IF rows = <<>> THEN <<>>
    ELSE IF IsBlank(Head(rows).name) THEN ListOf(Tail(rows))
    ELSE LET entry == Head(rows).name \o <<SP>> \o Head(rows).amount \o <<"g">>
             rest == ListOf(Tail(rows))
         IN  IF rest = <<>> THEN entry ELSE entry \o <<COMMA>> \o rest

\* every row has a blank trimmed name (also when there is no row)
NoNamedRow == \A i \in 1..Len(ingredients) : Trim(ingredients[i].name) = <<>>

----------------------------------------------------------------------------
(* Properties *)

\* C1: at most one request to the endpoint is outstanding at any time.
C1_AtMostOneOutstanding == InFlight <= 1

\* C2: a non-empty transcript starts with a user message whose
\* isIngredientList is true.
C2_StartsWithIngredientList ==
    chatHistory # <<>> =>
        /\ chatHistory[1].role = "user"
        /\ chatHistory[1].isIngredientList = TRUE

\* C3 as stated: when a follow-up request fails, the transcript ends with the
\* user message that was sent, the input text is not cleared and the flag is
\* false.
C3_FailedFollowUpKeepsUserMessage ==
    [][ \A req \in BagToSet(pending) :
          Fails("sendMessage", req) =>
             /\ chatHistory' # <<>>
             /\ chatHistory'[Len(chatHistory')] = req.newHistory[Len(req.newHistory)]
             /\ inputText' = inputText
             /\ isLoading' = FALSE ]_vars

\* C3 as amended: when a follow-up request fails, the transcript and the input
\* text are what they were just before the failure arrived (the user message
\* that was sent is not stored, no reply is added) and the flag is false.
C3_FailedFollowUpChangesNothing ==
    [][ \A req \in BagToSet(pending) :
          Fails("sendMessage", req) =>
             /\ chatHistory' = chatHistory
             /\ inputText' = inputText
             /\ isLoading' = FALSE ]_vars

\* a follow-up to a recipe has failed while the input still holds its text
C3_Witness ==
    /\ last = Event("sendMessage", "failed", <<>>)
    /\ Trim(inputText) # <<>>
    /\ Len(chatHistory) = 2
    /\ ~isLoading

\* C4: when the initial recipe request fails, the transcript and the input
\* text are what they were just before the failure arrived, and the flag is
\* false.
C4_FailedRecipeChangesNothing ==
    [][ \A req \in BagToSet(pending) :
          Fails("generateRecipe", req) =>
             /\ chatHistory' = chatHistory
             /\ inputText' = inputText
             /\ isLoading' = FALSE ]_vars

\* a recipe request has failed over a transcript and an input that are not empty
C4_Witness ==
    /\ last = Event("generateRecipe", "failed", <<>>)
    /\ chatHistory # <<>>
    /\ inputText # <<>>
    /\ ~isLoading

\* C5: the list of a recipe request is built from the rows when it is issued,
\* and when the request succeeds the transcript becomes exactly the user
\* message restating that list (isIngredientList true) and the assistant's
\* reply, whatever it held before.
C5_RecipeReplacesTranscript ==
    [][ /\ \A req \in BagToSet(pending') :
             (req.op = "generateRecipe" /\ Issues(req)) =>
                 req.ingredientsList = BuildIngredientsList(ingredients)
        /\ \A req \in BagToSet(pending) :
             Succeeds("generateRecipe", req) =>
                 /\ Len(chatHistory') = 2
                 /\ chatHistory'[1] =
                       ChatMessage("user", ListLabel \o req.ingredientsList, TRUE)
                 /\ chatHistory'[2] = ChatMessage("assistant", last'.reply, FALSE) ]_vars

\* a recipe request has succeeded after the rows were edited under it, with a
\* reply of two parts
C5_Witness ==
    /\ last = Event("generateRecipe", "succeeded", <<"A", NL, "B">>)
    /\ Len(chatHistory) = 2
    /\ chatHistory[1].isIngredientList
    /\ chatHistory[1].text # ListLabel \o BuildIngredientsList(ingredients)

\* C6: the history of a follow-up is the transcript at the time sendMessage is
\* invoked plus the user message with the untrimmed input text, and when the
\* request succeeds the transcript becomes that history plus one assistant
\* message.
C6_FollowUpAppendsTwo ==
    [][ /\ \A req \in BagToSet(pending') :
             (req.op = "sendMessage" /\ Issues(req)) =>
                 req.newHistory =
                     chatHistory \o << ChatMessage("user", inputText, FALSE) >>
        /\ \A req \in BagToSet(pending) :
             Succeeds("sendMessage", req) =>
                 /\ Len(chatHistory') = Len(req.newHistory) + 1
                 /\ SubSeq(chatHistory', 1, Len(req.newHistory)) = req.newHistory
                 /\ chatHistory'[Len(chatHistory')] =
                       ChatMessage("assistant", last'.reply, FALSE) ]_vars

\* a follow-up to a recipe has succeeded, sent with text that trim would change
C6_Witness ==
    /\ last.op = "sendMessage" /\ last.outcome = "succeeded"
    /\ Len(chatHistory) = 4
    /\ chatHistory[1].isIngredientList
    /\ Trim(chatHistory[3].text) # chatHistory[3].text

\* C7: a click on the submit button issues no request and changes no state
\* when every row has a blank trimmed name or when the flag is true.
C7_SubmitIsNoOp ==
    [][ (ClickSubmit /\ (NoNamedRow \/ isLoading))
            => UNCHANGED <<state, pending>> ]_vars

\* the rows are blank after trimming, one name being white space, and nothing
\* is in flight: the click leaves this state as it is
C7_Witness ==
    /\ NoNamedRow
    /\ \E i \in 1..Len(ingredients) : ingredients[i].name # <<>>
    /\ ~isLoading
    /\ pending = EmptyBag

\* C8: sendMessage never issues a request while the transcript is empty.
C8_FollowUpOnlyWhenActive ==
    [][ \A req \in BagToSet(pending') :
          (req.op = "sendMessage" /\ Issues(req)) => chatHistory # <<>> ]_vars

\* C9: when no request is outstanding the flag is false, and, every request
\* eventually succeeding or failing, a true flag eventually becomes false.
C9_NeverStuckDisabled ==
    /\ [](InFlight = 0 => ~isLoading)
    /\ (isLoading ~> ~isLoading)

\* the result of the only request has arrived and the flag is false again
C9_Witness ==
    /\ last.outcome \in {"succeeded", "failed"}
    /\ InFlight = 0
    /\ ~isLoading

\* C10: while a request is outstanding the flag is true.
C10_FlagWhileOutstanding == InFlight > 0 => isLoading

\* C11: a step of resetChat, taken in any state, ends with the transcript
\* empty, the input text empty and the flag false, and leaves the rows as they
\* were.
C11_ResetClears ==
    [][ last'.op = "resetChat" =>
           /\ chatHistory' = <<>>
           /\ inputText' = <<>>
           /\ isLoading' = FALSE
           /\ ingredients' = ingredients ]_vars

\* resetChat has just run while a recipe request for a named row is outstanding
C11_Witness ==
    /\ last.op = "resetChat"
    /\ \E req \in BagToSet(pending) : req.op = "generateRecipe"
    /\ ~NoNamedRow
    /\ chatHistory = <<>> /\ inputText = <<>> /\ ~isLoading

\* C12: every step other than a step of resetChat leaves the transcript as it
\* was or extends it: what it held stays, in place, at its beginning.
C12_AppendOnly ==
    [][ last'.op # "resetChat" => IsPrefix(chatHistory, chatHistory') ]_vars

\* C13: after every editor operation the ids of the rows are pairwise
\* distinct, and the ids of the rows are what they were, in the same order, with
\* some left out (a removal) or with one more at the end (an addition).
C13_IdsUniqueStableOrdered ==
    [][ /\ DistinctIds(ingredients')
        /\ \/ IsSubseq(IdsOf(ingredients'), IdsOf(ingredients))
           \/ /\ Len(ingredients') = Len(ingredients) + 1
              /\ IsPrefix(IdsOf(ingredients), IdsOf(ingredients')) ]_vars

\* C14: a step of removeIngredient(id) takes exactly one row out of the list,
\* a row with that id, and leaves every other row as it was and where it was
\* relative to the others.
C14_RemoveDeletesOneRow ==
    [][ \A id \in RowIds :
          removeIngredient(id) =>
             \E k \in 1..Len(ingredients) :
                /\ ingredients[k].id = id
                /\ ingredients' = SubSeq(ingredients, 1, k - 1)
                                     \o SubSeq(ingredients, k + 1, Len(ingredients)) ]_vars

\* C15: the list string of any list of rows, and the one a recipe request is
\* issued with, has one entry "name amount" followed by "g" per row whose
\* trimmed name is not empty, in the order of the rows, with a full-width comma
\* between entries; a blank amount leaves "name g", and rows that are all
\* blank, or no rows, give the empty string.
C15_ListString ==
    /\ [](BuildIngredientsList(ingredients) = ListOf(ingredients))
    /\ [][ \A req \in BagToSet(pending') :
             (req.op = "generateRecipe" /\ Issues(req)) =>
                 req.ingredientsList = ListOf(ingredients) ]_vars

\* a recipe request is outstanding for a named row with an amount, a row whose
\* name is a space and a named row with no amount
C15_Witness ==
    /\ Len(ingredients) = 3
    /\ ingredients[2].name = <<SP>>
    /\ \E req \in BagToSet(pending) :
          req.ingredientsList = <<"a", SP, "1", "g", COMMA, SP, "b", SP, "g">>

\* C16: the contents of a follow-up request, when it is issued, are one entry
\* per message of the transcript as it stands, in order, each with the role and
\* the text of its message, followed by a last entry of role user with the
\* input text.
C16_ContentsAreTranscriptPlusMessage ==
    [][ \A req \in BagToSet(pending') :
          (req.op = "sendMessage" /\ Issues(req)) =>
              /\ Len(req.contents) = Len(chatHistory) + 1
              /\ \A i \in 1..Len(chatHistory) :
                    req.contents[i] = [role |-> chatHistory[i].role,
                                       parts |-> <<chatHistory[i].text>>]
              /\ req.contents[Len(req.contents)] =
                    [role |-> "user", parts |-> <<inputText>>] ]_vars

\* a follow-up to a recipe is outstanding: three entries, the ingredient list,
\* the recipe and the question
C16_Witness ==
    \E req \in BagToSet(pending) :
        /\ req.op = "sendMessage"
        /\ Len(req.contents) = 3
        /\ IsPrefix(ListLabel, req.contents[1].parts[1])
        /\ req.contents[2] = [role |-> "assistant", parts |-> << <<"A", NL, "B">> >>]
        /\ req.contents[3] = [role |-> "user", parts |-> << <<SP, "q">> >>]

\* C17: resetChat having just run, the requests that are outstanding were all
\* issued before it; the result of one of them, arriving before anything else
\* is done, changes neither the transcript nor the input text.
C17_StaleResultChangesNothing ==
    [][ (last.op = "resetChat" /\ last'.outcome \in {"succeeded", "failed"}) =>
            /\ chatHistory' = chatHistory
            /\ inputText' = inputText ]_vars

\* C18: with no reset and no recipe submission, every follow-up that is
\* answered leaves in the transcript all that it held, the exchanges answered
\* before it included, and adds its own two messages.
C18_NoAnsweredExchangeLost ==
    [][ \A req \in BagToSet(pending) :
          Succeeds("sendMessage", req) =>
              /\ IsPrefix(chatHistory, chatHistory')
              /\ Len(chatHistory') = Len(chatHistory) + 2 ]_vars

\* C19: the transcript has an even number of messages, the odd ones of role
\* user and the even ones of role assistant: every user message it holds is
\* followed by its reply.
C19_UserAssistantPairs ==
    /\ Len(chatHistory) % 2 = 0
    /\ \A i \in 1..Len(chatHistory) :
          chatHistory[i].role = IF i % 2 = 1 THEN "user" ELSE "assistant"

\* a follow-up has just failed, leaving no message, over a transcript that
\* holds the recipe and one answered follow-up
C19_Witness ==
    /\ Len(chatHistory) = 4
    /\ chatHistory[1].isIngredientList
    /\ chatHistory[3] = ChatMessage("user", <<SP, "q">>, FALSE)
    /\ last = Event("sendMessage", "failed", <<>>)

====
